---- MODULE Spec2Model ----
(***************************************************************************)
(* A model of fake_news_bot.py: the URL extractor, the three Telegram      *)
(* handlers (start_command, handle_text, handle_media) and main.           *)
(*                                                                         *)
(* Every await / external call of a handler is one action; its outcome     *)
(* (return value or raised exception) is chosen with \E.  Text is kept as  *)
(* data: a scraped page is a sequence of one-character strings, a chat     *)
(* text is the sequence of the parts of the f-string that built it.        *)
(***************************************************************************)
EXTENDS Integers, Sequences, FiniteSets, TLC

VARIABLES
    environ,          \* process environment: name -> value, Absent when unset
    TELEGRAM_TOKEN,   \* module global (line 16)
    GEMINI_API_KEY,   \* module global (line 17)
    genai_key,        \* key handed to genai.configure (line 20)
    main_pc,          \* position of the process: import, main(), polling loop
    stdout,           \* lines printed to the operator
    app_handlers,     \* handlers registered on the Application, in order
    capacity,         \* number of updates the dispatch loop takes in this run
    inbox,            \* the updates the platform may deliver in this run
    pc,               \* slot -> position of the handler coroutine
    update,           \* slot -> the incoming update being handled
    status_msg,       \* slot -> id of the handler's status message (0: none)
    calls,            \* slot -> external calls made so far, in order
    dispatched,       \* slot -> prompts given to generate_content, in order
    frame,            \* slot -> local variables of the coroutine
    chat,             \* outbound messages of the bot: id -> [text, parse_mode]
    fs,               \* paths existing in the local temporary directory
    remote,           \* names of the files held by the inference provider
    uploads,          \* number of files the provider has accepted so far
    x_fetch,          \* extractor run on its own: what the fetch does
    x_pc,             \* extractor run on its own: "call" or "returned"
    x_result          \* extractor run on its own: outcome of the call

mainVars == <<environ, TELEGRAM_TOKEN, GEMINI_API_KEY, genai_key, main_pc, stdout, app_handlers>>
slotVars == <<pc, update, status_msg, calls, dispatched, frame>>
worldVars == <<chat, fs, remote, uploads>>
extractVars == <<x_fetch, x_pc, x_result>>
loopVars == <<capacity, inbox>>
vars == <<mainVars, loopVars, slotVars, worldVars, extractVars>>

----------------------------------------------------------------------------
(* Bounds of the model. *)

\* Largest number of whitespace-separated words of a text message.
MaxWords == 2
\* Largest number of get_file polls one video handler is followed through.
MaxPolls == 3
\* Largest number of <p> elements of a page given to the extractor alone.
MaxParas == 2
\* How far past the 15,000-character limit a single paragraph may reach.
MaxExcess == 1

(* Program constants. *)

\* text[:15000]
MAX_CHARS == 15000
\* asyncio.sleep(3)
POLL_SECONDS == 3
\* 20 * 1024 * 1024
MAX_VIDEO_BYTES == 20971520

Slots == {1, 2}
Absent == "<unset>"

----------------------------------------------------------------------------
(* Text helpers. *)

RECURSIVE JoinSpace(_)
\* ' '.join(parts): the parts separated by single spaces
JoinSpace(parts) ==
    IF parts = <<>> THEN <<>>
    ELSE IF Len(parts) = 1 THEN Head(parts)
    ELSE Head(parts) \o <<" ">> \o JoinSpace(Tail(parts))

\* s[:n]
SliceTo(s, n) == SubSeq(s, 1, IF Len(s) < n THEN Len(s) ELSE n)

\* needle occurs in hay as a contiguous run
Contains(hay, needle) ==
    \E i \in 1..(Len(hay) - Len(needle) + 1) :
        SubSeq(hay, i, i + Len(needle) - 1) = needle

\* n copies of the character c
Run(c, n) == [i \in 1..n |-> c]

----------------------------------------------------------------------------
(* extract_text_from_url (lines 48-58). *)

\* The exception classes the fetch and the parse can raise, with their bases.
ExceptionBases ==
    [ Timeout |-> {"Timeout", "RequestException", "Exception"},
      ConnectionError |-> {"ConnectionError", "RequestException", "Exception"},
      ParserRejectedMarkup |-> {"ParserRejectedMarkup", "Exception"} ]

\* A narrower handler: except requests.RequestException.
CatchesRequestsOnly(cls) == "RequestException" \in ExceptionBases[cls]

\* except Exception as e (line 57)
ExceptClauseCatches(cls) == "Exception" \in ExceptionBases[cls]

\* A slice one past the limit.
TruncateOffByOne(text) == SliceTo(text, MAX_CHARS + 1)

\* text[:15000] (line 56)
Truncate(text) == SliceTo(text, MAX_CHARS)

\* "[Failed to extract webpage content: "
FAILED_PREFIX ==
    << "[", "F", "a", "i", "l", "e", "d", " ", "t", "o", " ",
       "e", "x", "t", "r", "a", "c", "t", " ",
       "w", "e", "b", "p", "a", "g", "e", " ",
       "c", "o", "n", "t", "e", "n", "t", ":", " " >>

\* f"[Failed to extract webpage content: {e}]" (line 58)
FailedPlaceholder(desc) == FAILED_PREFIX \o desc \o <<"]">>

NoException == [cls |-> "", desc |-> <<>>]

\* What one requests.get + BeautifulSoup run does: raises in the fetch
\* ("get"), raises in the parse ("parse"), or yields the page's <p> texts.
FetchOk(paragraphs) ==
    [raises |-> "none", exc |-> NoException, paragraphs |-> paragraphs]
FetchRaises(stage, cls, desc) ==
    [raises |-> stage, exc |-> [cls |-> cls, desc |-> desc], paragraphs |-> <<>>]

\* An extractor without the except clause.
ExtractLetsErrorsOut(url, fetch) ==
    IF fetch.raises = "none"
    THEN [propagated |-> FALSE, exc |-> NoException,
          value |-> Truncate(JoinSpace(fetch.paragraphs))]
    ELSE [propagated |-> TRUE, exc |-> fetch.exc, value |-> <<>>]

\* The call either returns a string or lets the exception out.
extract_text_from_url(url, fetch) ==
    IF fetch.raises = "none"
    THEN [propagated |-> FALSE, exc |-> NoException,
          value |-> Truncate(JoinSpace(fetch.paragraphs))]
    ELSE IF ExceptClauseCatches(fetch.exc.cls)
    THEN [propagated |-> FALSE, exc |-> NoException,
          value |-> FailedPlaceholder(fetch.exc.desc)]
    ELSE [propagated |-> TRUE, exc |-> fetch.exc, value |-> <<>>]

TIMED_OUT == <<"t", "i", "m", "e", "d", " ", "o", "u", "t">>
REFUSED == <<"r", "e", "f", "u", "s", "e", "d">>
BAD_MARKUP == <<"b", "a", "d", " ", "m", "a", "r", "k", "u", "p">>

\* The failures of a fetch: timeout, connection error, unparsable body.
FetchFailures ==
    { FetchRaises("get", "Timeout", TIMED_OUT),
      FetchRaises("get", "ConnectionError", REFUSED),
      FetchRaises("parse", "ParserRejectedMarkup", BAD_MARKUP) }

\* Lengths of one paragraph, around the limit and around half of it.
ParaLengths ==
    {0, 1, 2, MAX_CHARS \div 2, MAX_CHARS - 1, MAX_CHARS}
        \cup {MAX_CHARS + k : k \in 1..MaxExcess}

ParaLetters == <<"a", "b", "c", "d">>

\* Pages of up to MaxParas paragraphs; paragraph j is a run of letter j.
Pages ==
    UNION { { [j \in 1..n |-> Run(ParaLetters[j], lens[j])] :
                lens \in [1..n -> ParaLengths] } : n \in 0..MaxParas }

FetchOutcomes == { FetchOk(p) : p \in Pages } \cup FetchFailures

----------------------------------------------------------------------------
(* Incoming updates and the texts of the bot. *)

SCHEMES == {"http://", "https://"}

\* Words of a message: each is a run of non-space pieces, a piece being a
\* scheme ("http://", "https://") or any other run of non-space characters.
WORDS ==
    { <<"claim">>,
      <<"https://", "a.example/x">>,
      <<"see:", "http://", "b.example">>,
      <<"http://">> }

\* Text messages: one to MaxWords words separated by whitespace.
Texts == UNION { [1..n -> WORDS] : n \in 1..MaxWords }

\* The match of https?://[^\s]+ in one word: from the first scheme that has
\* at least one more non-space character after it to the end of the word;
\* <<>> when there is none.
MatchInWord(word) ==
    LET starts == { i \in 1..(Len(word) - 1) : word[i] \in SCHEMES }
    IN  IF starts = {} THEN <<>>
        ELSE LET first == CHOOSE i \in starts : \A j \in starts : i <= j
             IN  SubSeq(word, first, Len(word))

RECURSIVE FindUrls(_)
\* re.findall(r'(https?://[^\s]+)', user_text) (line 83)
FindUrls(text) ==
    IF text = <<>> THEN <<>>
    ELSE LET m == MatchInWord(Head(text))
         IN  (IF m = <<>> THEN <<>> ELSE <<m>>) \o FindUrls(Tail(text))

\* A block put in front of the earlier ones.
PrependBlock(extracted_content, url, content) ==
    <<[url |-> url, content |-> content]>> \o extracted_content

\* extracted_content += f"\n\n--- Content from {url} ---\n{content}" (line 91)
AppendBlock(extracted_content, url, content) ==
    Append(extracted_content, [url |-> url, content |-> content])

\* f"{SYSTEM_INSTRUCTION}\n\nUser Message/Claim: {user_text}\n{extracted_content}" (line 93)
TextPrompt(user_text, extracted_content) ==
    [instruction |-> "SYSTEM_INSTRUCTION", user_text |-> user_text,
     extracted_content |-> extracted_content]

\* message.caption or "No caption provided by the user." (line 150)
CaptionOrDefault(caption) ==
    IF caption = "" THEN "No caption provided by the user." ELSE caption

\* The [gemini_file, prompt] list given to generate_content (lines 151-154)
MediaPrompt(gemini_file, media_type, caption) ==
    [instruction |-> "SYSTEM_INSTRUCTION", file |-> gemini_file,
     media_type |-> media_type, caption |-> CaptionOrDefault(caption)]

\* A check that also turns away a video of exactly the limit.
TooLargeInclusive(file_size) == file_size >= MAX_VIDEO_BYTES

\* message.video.file_size > 20 * 1024 * 1024 (line 119)
TooLarge(file_size) == file_size > MAX_VIDEO_BYTES

VideoSizes ==
    {MAX_VIDEO_BYTES - 1, MAX_VIDEO_BYTES, MAX_VIDEO_BYTES + 1, 25 * 1024 * 1024}

Captions == {"", "is this real?"}

Upd(kind, text, file_size, caption) ==
    [kind |-> kind, text |-> text, file_size |-> file_size, caption |-> caption]

\* What the chat platform delivers: commands, text, photos, videos.
Updates ==
    { Upd("command", <<<<c>>>>, 0, "") : c \in {"/start", "/help"} }
    \cup { Upd("text", t, 0, "") : t \in Texts }
    \cup { Upd("photo", <<>>, 0, c) : c \in Captions }
    \cup { Upd("video", <<>>, n, c) : n \in VideoSizes, c \in Captions }

\* The handlers main registers, in order (lines 183-190).
REGISTERED ==
    << [filter |-> "command:/start", callback |-> "start_command"],
       [filter |-> "command:/help", callback |-> "start_command"],
       [filter |-> "TEXT & ~COMMAND", callback |-> "handle_text"],
       [filter |-> "PHOTO | VIDEO", callback |-> "handle_media"] >>

FilterMatches(filter, u) ==
    CASE filter = "command:/start" -> u.kind = "command" /\ u.text = <<<<"/start">>>>
      [] filter = "command:/help" -> u.kind = "command" /\ u.text = <<<<"/help">>>>
      [] filter = "TEXT & ~COMMAND" -> u.kind = "text"
      [] filter = "PHOTO | VIDEO" -> u.kind \in {"photo", "video"}
      [] OTHER -> FALSE

\* The callback of the first registered handler whose filter matches.
Route(handlers, u) ==
    LET hits == { k \in 1..Len(handlers) : FilterMatches(handlers[k].filter, u) }
    IN  IF hits = {} THEN "none"
        ELSE handlers[CHOOSE k \in hits : \A j \in hits : k <= j].callback

\* Where the coroutine of a callback first stops: its first external call.
\* handle_media decides it from the media kind and the size (lines 114-125).
EntryPoint(callback, u) ==
    CASE callback = "start_command" -> "S_reply"
      [] callback = "handle_text" -> "T_reply"
      [] callback = "handle_media" ->
            IF u.kind = "photo" THEN "M_get_file"
            ELSE IF u.kind = "video"
            THEN (IF TooLarge(u.file_size) THEN "M_reply_too_large" ELSE "M_get_file")
            ELSE "returned"
      [] OTHER -> "idle"

\* Chat texts, as the parts of the f-strings that build them.
WELCOME == <<"Welcome to the **AI Fact-Checker Bot**! ...">>
ANALYZING_TEXT == <<"Analyzing text...">>
FoundLinks(n) == <<"Found ", ToString(n), " link(s). Extracting webpage content...">>
FACT_CHECKING == <<"Fact-checking with Gemini AI...">>
TextError(e) == <<"An error occurred during analysis: ", e>>
TOO_LARGE == <<"This video is too large. Telegram bots can only process files up to 20MB.">>
Downloading(media_type) == <<"Downloading ", media_type, "...">>
UPLOADING == <<"Uploading media to Gemini AI for analysis...">>
PROCESSING_VIDEO == <<"Processing video frames and audio (this may take a few seconds)...">>
ANALYZING_MEDIA == <<"Analyzing media content for manipulation and context...">>
MediaError(e) == <<"An error occurred: ", e>>
PROCESSING_FAILED == "Gemini failed to process the video."
CONFIG_ERROR == "ERROR: Please set your TELEGRAM_TOKEN and GEMINI_API_KEY inside the script or via Environment Variables."
RUNNING == "Fact-Checker Bot is running! Press Ctrl+C to stop."

\* Texts the model can answer with (response.text).
VerdictTexts == {"Verdict: Fake", "Verdict: *Real_"}

\* Descriptions of the exceptions the external calls raise.
TG_ERROR == "TimedOut"
GENAI_ERROR == "ServiceUnavailable"
NO_TEXT_ERROR == "ValueError: response.text needs a valid Part"
DOWNLOAD_ERROR == "NetworkError"

\* What a fetch does for a URL met in a message: a small page or a timeout.
HandlerFetches ==
    { FetchOk(<<Run("a", 2), Run("b", 1)>>),
      FetchRaises("get", "Timeout", TIMED_OUT) }

TempNames == {"/tmp/tmp1", "/tmp/tmp2"}
FileStates == {"PROCESSING", "ACTIVE", "FAILED"}

----------------------------------------------------------------------------
(* Startup: the module's top level and main (lines 16-20, 174-193). *)

PLACEHOLDER_TOKEN == "YOUR_TELEGRAM_BOT_TOKEN"
PLACEHOLDER_KEY == "YOUR_GEMINI_API_KEY"

\* os.getenv(name, default)
getenv(env, name, default) == IF env[name] = Absent THEN default ELSE env[name]

InitSlots ==
    /\ pc = [s \in Slots |-> "idle"]
    /\ update = [s \in Slots |-> [kind |-> "none", text |-> <<>>, file_size |-> 0, caption |-> ""]]
    /\ status_msg = [s \in Slots |-> 0]
    /\ calls = [s \in Slots |-> <<>>]
    /\ dispatched = [s \in Slots |-> <<>>]
    /\ frame = [s \in Slots |->
                 [urls |-> <<>>, i |-> 1, in_flight |-> {}, extracted_content |-> <<>>,
                  response |-> [blocked |-> FALSE, text |-> ""],
                  e |-> "", exc |-> "", media_type |-> "", temp_file |-> "", temp_path |-> "",
                  gemini_file |-> [name |-> 0, state |-> ""], polls |-> 0]]
    /\ chat = <<>>
    /\ fs = {}
    /\ remote = {}
    /\ uploads = 0

Init ==
    /\ environ \in [TELEGRAM_TOKEN : {Absent, PLACEHOLDER_TOKEN, "123456:token"},
                    GEMINI_API_KEY : {Absent, PLACEHOLDER_KEY, "gemini-key"}]
    /\ TELEGRAM_TOKEN = ""
    /\ GEMINI_API_KEY = ""
    /\ genai_key = ""
    /\ main_pc = "import"
    /\ stdout = <<>>
    /\ app_handlers = <<>>
    /\ capacity = 1
    /\ inbox = Updates
    /\ InitSlots
    /\ x_fetch = FetchOk(<<>>)
    /\ x_pc = "unused"
    /\ x_result = [propagated |-> FALSE, exc |-> NoException, value |-> <<>>]

\* Lines 16-20: the globals are read from the environment, genai configured.
ImportModule ==
    /\ main_pc = "import"
    /\ TELEGRAM_TOKEN' = getenv(environ, "TELEGRAM_TOKEN", "")
    /\ GEMINI_API_KEY' = getenv(environ, "GEMINI_API_KEY", "")
    /\ genai_key' = GEMINI_API_KEY'
    /\ main_pc' = "main"
    /\ UNCHANGED <<environ, stdout, app_handlers, loopVars, slotVars, worldVars, extractVars>>

\* The test of line 175.
ConfigRejected(token, key) == token = PLACEHOLDER_TOKEN \/ key = PLACEHOLDER_KEY

\* Lines 175-177: the placeholder test, the error report and the return.
MainCheck ==
    /\ main_pc = "main"
    /\ IF ConfigRejected(TELEGRAM_TOKEN, GEMINI_API_KEY)
       THEN /\ stdout' = Append(stdout, CONFIG_ERROR)
            /\ main_pc' = "returned"
       ELSE /\ stdout' = stdout
            /\ main_pc' = "build"
    /\ UNCHANGED <<environ, TELEGRAM_TOKEN, GEMINI_API_KEY, genai_key, app_handlers,
                   loopVars, slotVars, worldVars, extractVars>>

\* Line 180: Application.builder().token(TELEGRAM_TOKEN).build(); the
\* library raises InvalidToken for an empty token, and main catches nothing.
MainBuild ==
    /\ main_pc = "build"
    /\ main_pc' = IF TELEGRAM_TOKEN = "" THEN "crashed" ELSE "register"
    /\ UNCHANGED <<environ, TELEGRAM_TOKEN, GEMINI_API_KEY, genai_key, stdout, app_handlers,
                   loopVars, slotVars, worldVars, extractVars>>

\* Lines 183-190: the four add_handler calls.
MainRegister ==
    /\ main_pc = "register"
    /\ app_handlers' = REGISTERED
    /\ main_pc' = "run"
    /\ UNCHANGED <<environ, TELEGRAM_TOKEN, GEMINI_API_KEY, genai_key, stdout,
                   loopVars, slotVars, worldVars, extractVars>>

\* Lines 192-193: the banner and app.run_polling().
MainRun ==
    /\ main_pc = "run"
    /\ stdout' = Append(stdout, RUNNING)
    /\ main_pc' = "polling"
    /\ UNCHANGED <<environ, TELEGRAM_TOKEN, GEMINI_API_KEY, genai_key, app_handlers,
                   loopVars, slotVars, worldVars, extractVars>>

Busy == { s \in Slots : pc[s] # "idle" }

\* Positions at which a coroutine is inside code that does not await: the
\* calls of the genai client (lines 98, 136, 143, 154, 162), the hand-over to
\* the worker thread (line 90) and the finally block (lines 167-169).  The
\* thread of the event loop is executing that code.
BlockingPcs ==
    {"T_extract", "T_generate", "M_upload", "M_get_state", "M_get_state_on",
     "M_generate", "M_delete_remote", "M_finally"}

\* The coroutines the event loop can resume: any of them while none is
\* inside blocking code, otherwise only the one that is.
Runnable == { s \in Slots : \A t \in Slots \ {s} : pc[t] \notin BlockingPcs }

\* The polling loop takes an update and starts the matching callback, which
\* runs to its first external call.
Receive ==
    /\ main_pc = "polling"
    /\ Cardinality(Busy) < capacity
    /\ \A t \in Slots : pc[t] \notin BlockingPcs
    /\ \E u \in inbox :
         LET s == Cardinality(Busy) + 1
             callback == Route(app_handlers, u)
         IN  /\ callback # "none"
             /\ update' = [update EXCEPT ![s] = u]
             /\ pc' = [pc EXCEPT ![s] = EntryPoint(callback, u)]
    /\ UNCHANGED <<mainVars, loopVars, status_msg, calls, dispatched, frame,
                   worldVars, extractVars>>

----------------------------------------------------------------------------
(* Steps shared by the handlers. *)

\* One more external call in the handler's record.
\* args: the text, URL or path given; n: a number given (seconds, file name);
\* result: what the call returned when the handler uses it (the state a
\* provider call reports, the extractor's string); ok: FALSE when it raised.
Entry(op, args, n, result, ok) ==
    [op |-> op, args |-> args, n |-> n, result |-> result, ok |-> ok]

Call(s, op, args, n, result, ok) ==
    calls' = [calls EXCEPT ![s] = Append(@, Entry(op, args, n, result, ok))]

\* An exception that no try block of the handler catches leaves the handler.
Raise(s, e) ==
    /\ frame' = [frame EXCEPT ![s].exc = e]
    /\ pc' = [pc EXCEPT ![s] = "raised"]

\* An exception caught by the handler's except clause, bound to e.
Caught(s, e, handler_pc) ==
    /\ frame' = [frame EXCEPT ![s].e = e]
    /\ pc' = [pc EXCEPT ![s] = handler_pc]

Goto(s, next_pc) == pc' = [pc EXCEPT ![s] = next_pc]

Msg(text, parse_mode) == [text |-> text, parse_mode |-> parse_mode]

\* An edit that arrives as a new message.
EditAsNewMessage(s, text, parse_mode) == chat' = Append(chat, Msg(text, parse_mode))

\* status_msg.edit_text(text, parse_mode=...) accepted by the platform
EditText(s, text, parse_mode) ==
    chat' = [chat EXCEPT ![status_msg[s]] = Msg(text, parse_mode)]

\* message.reply_text(text): a new outbound message
ReplyText(text, parse_mode) == chat' = Append(chat, Msg(text, parse_mode))

----------------------------------------------------------------------------
(* start_command (lines 63-75). *)

StartCommandReply ==
    \E s \in Runnable :
        /\ pc[s] = "S_reply"
        /\ \E ok \in BOOLEAN :
             /\ Call(s, "reply_text", WELCOME, 0, "", ok)
             /\ IF ok
                THEN ReplyText(WELCOME, "Markdown") /\ Goto(s, "replied") /\ UNCHANGED frame
                ELSE UNCHANGED chat /\ Raise(s, TG_ERROR)
        /\ UNCHANGED <<mainVars, loopVars, update, status_msg, dispatched,
                       fs, remote, uploads, extractVars>>

----------------------------------------------------------------------------
(* handle_text (lines 77-107). *)

textFrame == <<mainVars, loopVars, update, fs, remote, uploads, extractVars>>

\* Lines 79-86: the status message is sent, then the URLs are looked for.
HandleTextReply ==
    \E s \in Runnable :
        /\ pc[s] = "T_reply"
        /\ \E ok \in BOOLEAN :
             /\ Call(s, "reply_text", ANALYZING_TEXT, 0, "", ok)
             /\ IF ok
                THEN LET urls == FindUrls(update[s].text)
                     IN  /\ ReplyText(ANALYZING_TEXT, "")
                         /\ status_msg' = [status_msg EXCEPT ![s] = Len(chat) + 1]
                         /\ frame' = [frame EXCEPT ![s].urls = urls, ![s].i = 1,
                                                   ![s].extracted_content = <<>>]
                         /\ Goto(s, IF urls # <<>> THEN "T_edit_found" ELSE "T_edit_checking")
                ELSE UNCHANGED <<chat, status_msg>> /\ Raise(s, TG_ERROR)
        /\ UNCHANGED <<textFrame, dispatched>>

\* Line 87: the progress edit, outside any try block.
HandleTextEditFound ==
    \E s \in Runnable :
        /\ pc[s] = "T_edit_found"
        /\ \E ok \in BOOLEAN :
             /\ Call(s, "edit_text", FoundLinks(Len(frame[s].urls)), 0, "", ok)
             /\ IF ok
                THEN EditText(s, FoundLinks(Len(frame[s].urls)), "")
                     /\ Goto(s, "T_extract") /\ UNCHANGED frame
                ELSE UNCHANGED chat /\ Raise(s, TG_ERROR)
        /\ UNCHANGED <<textFrame, status_msg, dispatched>>

\* Line 90: asyncio.to_thread(extract_text_from_url, url) hands the URL to a
\* worker thread; the coroutine waits for it.
HandleTextSubmitExtract ==
    \E s \in Runnable :
        /\ pc[s] = "T_extract"
        /\ frame' = [frame EXCEPT ![s].in_flight = @ \cup {frame[s].i}]
        /\ Goto(s, "T_await_extract")
        /\ UNCHANGED <<textFrame, status_msg, calls, dispatched, chat>>

\* Lines 90-91: the worker thread's call returns, the coroutine resumes,
\* appends the block and goes round the loop.
HandleTextExtracted ==
    \E s \in Runnable :
        /\ pc[s] = "T_await_extract"
        /\ \E fetch \in HandlerFetches :
             LET url == frame[s].urls[frame[s].i]
                 r == extract_text_from_url(url, fetch)
             IN  /\ Call(s, "extract_text_from_url", url, 0, r.value, ~r.propagated)
                 /\ IF r.propagated
                    THEN /\ frame' = [frame EXCEPT ![s].in_flight = @ \ {frame[s].i},
                                                   ![s].exc = "extractor"]
                         /\ Goto(s, "raised")
                    ELSE /\ frame' = [frame EXCEPT
                                ![s].in_flight = @ \ {frame[s].i},
                                ![s].extracted_content = AppendBlock(@, url, r.value),
                                ![s].i = @ + 1]
                         /\ Goto(s, IF frame[s].i = Len(frame[s].urls)
                                    THEN "T_edit_checking" ELSE "T_extract")
        /\ UNCHANGED <<textFrame, status_msg, dispatched, chat>>

\* Lines 93-96: the prompt is built, then the first edit inside the try.
HandleTextEditChecking ==
    \E s \in Runnable :
        /\ pc[s] = "T_edit_checking"
        /\ \E ok \in BOOLEAN :
             /\ Call(s, "edit_text", FACT_CHECKING, 0, "", ok)
             /\ IF ok
                THEN EditText(s, FACT_CHECKING, "") /\ Goto(s, "T_generate") /\ UNCHANGED frame
                ELSE UNCHANGED chat /\ Caught(s, TG_ERROR, "T_error_edit")
        /\ UNCHANGED <<textFrame, status_msg, dispatched>>

\* What generate_content does: a response with text, a response whose
\* .text raises (no valid part), or an exception.
GenerateOutcomes ==
    { [raised |-> FALSE, blocked |-> FALSE, text |-> v] : v \in VerdictTexts }
    \cup { [raised |-> FALSE, blocked |-> TRUE, text |-> ""],
           [raised |-> TRUE, blocked |-> FALSE, text |-> ""] }

\* Lines 97-98: model.generate_content(prompt, ...).
HandleTextGenerate ==
    \E s \in Runnable :
        /\ pc[s] = "T_generate"
        /\ \E out \in GenerateOutcomes :
             /\ Call(s, "generate_content", <<>>, 0, "", ~out.raised)
             /\ dispatched' = [dispatched EXCEPT ![s] =
                    Append(@, TextPrompt(update[s].text, frame[s].extracted_content))]
             /\ IF out.raised
                THEN Caught(s, GENAI_ERROR, "T_error_edit")
                ELSE /\ frame' = [frame EXCEPT ![s].response =
                                    [blocked |-> out.blocked, text |-> out.text]]
                     /\ Goto(s, "T_edit_markdown")
        /\ UNCHANGED <<textFrame, status_msg, chat>>

\* The text given to the plain edit, cut short.
PlainTextLost(response) == ""

\* response.text as given to the plain edit (lines 104, 159)
PlainText(response) == response.text

\* Lines 101-103: the Markdown edit; any exception goes to the bare except.
HandleTextEditMarkdown ==
    \E s \in Runnable :
        /\ pc[s] = "T_edit_markdown"
        /\ IF frame[s].response.blocked
           THEN Goto(s, "T_edit_plain") /\ UNCHANGED <<calls, chat>>
           ELSE \E ok \in BOOLEAN :
                  /\ Call(s, "edit_text_markdown", <<frame[s].response.text>>, 0, "", ok)
                  /\ IF ok
                     THEN EditText(s, <<frame[s].response.text>>, "Markdown")
                          /\ Goto(s, "replied")
                     ELSE UNCHANGED chat /\ Goto(s, "T_edit_plain")
        /\ UNCHANGED <<textFrame, status_msg, dispatched, frame>>

\* Line 104: the plain edit of the except branch.
HandleTextEditPlain ==
    \E s \in Runnable :
        /\ pc[s] = "T_edit_plain"
        /\ IF frame[s].response.blocked
           THEN Caught(s, NO_TEXT_ERROR, "T_error_edit") /\ UNCHANGED <<calls, chat>>
           ELSE \E ok \in BOOLEAN :
                  /\ Call(s, "edit_text", <<PlainText(frame[s].response)>>, 0, "", ok)
                  /\ IF ok
                     THEN EditText(s, <<PlainText(frame[s].response)>>, "")
                          /\ Goto(s, "replied") /\ UNCHANGED frame
                     ELSE UNCHANGED chat /\ Caught(s, TG_ERROR, "T_error_edit")
        /\ UNCHANGED <<textFrame, status_msg, dispatched>>

\* Lines 106-107: the error report; its own failure leaves the handler.
HandleTextErrorEdit ==
    \E s \in Runnable :
        /\ pc[s] = "T_error_edit"
        /\ \E ok \in BOOLEAN :
             /\ Call(s, "edit_text", TextError(frame[s].e), 0, "", ok)
             /\ IF ok
                THEN EditText(s, TextError(frame[s].e), "") /\ Goto(s, "failed")
                     /\ UNCHANGED frame
                ELSE UNCHANGED chat /\ Raise(s, TG_ERROR)
        /\ UNCHANGED <<textFrame, status_msg, dispatched>>

----------------------------------------------------------------------------
(* handle_media (lines 109-169). *)

mediaFrame == <<mainVars, loopVars, update, extractVars>>

\* Lines 120-121: the size-limit reply and the return.
HandleMediaReplyTooLarge ==
    \E s \in Runnable :
        /\ pc[s] = "M_reply_too_large"
        /\ \E ok \in BOOLEAN :
             /\ Call(s, "reply_text", TOO_LARGE, 0, "", ok)
             /\ IF ok
                THEN ReplyText(TOO_LARGE, "") /\ Goto(s, "rejected") /\ UNCHANGED frame
                ELSE UNCHANGED chat /\ Raise(s, TG_ERROR)
        /\ UNCHANGED <<mediaFrame, status_msg, dispatched, fs, remote, uploads>>

\* Lines 115-116 and 122-123: get_file, then media_type.
HandleMediaGetFile ==
    \E s \in Runnable :
        /\ pc[s] = "M_get_file"
        /\ \E ok \in BOOLEAN :
             /\ Call(s, "get_file", <<>>, 0, "", ok)
             /\ IF ok
                THEN /\ frame' = [frame EXCEPT ![s].media_type = update[s].kind]
                     /\ Goto(s, "M_reply_status")
                ELSE Raise(s, TG_ERROR)
        /\ UNCHANGED <<mediaFrame, status_msg, dispatched, chat, fs, remote, uploads>>

\* Line 127: the status message.
HandleMediaReplyStatus ==
    \E s \in Runnable :
        /\ pc[s] = "M_reply_status"
        /\ \E ok \in BOOLEAN :
             /\ Call(s, "reply_text", Downloading(frame[s].media_type), 0, "", ok)
             /\ IF ok
                THEN /\ ReplyText(Downloading(frame[s].media_type), "")
                     /\ status_msg' = [status_msg EXCEPT ![s] = Len(chat) + 1]
                     /\ Goto(s, "M_download") /\ UNCHANGED frame
                ELSE UNCHANGED <<chat, status_msg>> /\ Raise(s, TG_ERROR)
        /\ UNCHANGED <<mediaFrame, dispatched, fs, remote, uploads>>

\* Names given without looking at what exists.
AnyName(existing) == TempNames

\* The names NamedTemporaryFile can give a new file: none that exists.
FreshNames(existing) == TempNames \ existing

\* Lines 130-132: NamedTemporaryFile(delete=False) creates a file under a
\* fresh name, download_to_drive fills it; the with block only closes it.
HandleMediaDownload ==
    \E s \in Runnable :
        /\ pc[s] = "M_download"
        /\ \E path \in FreshNames(fs), ok \in BOOLEAN :
             /\ fs' = fs \cup {path}
             /\ Call(s, "download_to_drive", <<path>>, 0, "", ok)
             /\ IF ok
                THEN /\ frame' = [frame EXCEPT ![s].temp_file = path, ![s].temp_path = path]
                     /\ Goto(s, "M_edit_uploading")
                ELSE /\ frame' = [frame EXCEPT ![s].temp_file = path, ![s].exc = DOWNLOAD_ERROR]
                     /\ Goto(s, "raised")
        /\ UNCHANGED <<mediaFrame, status_msg, dispatched, chat, remote, uploads>>

\* Line 135: the first edit inside the try.
HandleMediaEditUploading ==
    \E s \in Runnable :
        /\ pc[s] = "M_edit_uploading"
        /\ \E ok \in BOOLEAN :
             /\ Call(s, "edit_text", UPLOADING, 0, "", ok)
             /\ IF ok
                THEN EditText(s, UPLOADING, "") /\ Goto(s, "M_upload") /\ UNCHANGED frame
                ELSE UNCHANGED chat /\ Caught(s, TG_ERROR, "M_error_edit")
        /\ UNCHANGED <<mediaFrame, status_msg, dispatched, fs, remote, uploads>>

\* A loop that never waits.
NeverPolls(state) == FALSE

\* The test of the while loop (line 141)
KeepPolling(state) == state = "PROCESSING"

\* Every kind of media waits for the provider.
AnyMedia(media_type) == TRUE

\* The test of line 139
IsVideo(media_type) == media_type = "video"

\* A handle that is never taken as failed.
NeverFailed(state) == FALSE

\* The test of line 145
ProcessingFailed(state) == state = "FAILED"

\* A loop that gives up after two observations and goes on to the analysis.
GivesUpAfterTwo(s, fr, state) ==
    IF KeepPolling(state) /\ fr[s].polls < 1
    THEN frame' = fr /\ Goto(s, "M_sleep")
    ELSE IF ProcessingFailed(state)
    THEN /\ frame' = [fr EXCEPT ![s].e = PROCESSING_FAILED]
         /\ Goto(s, "M_error_edit")
    ELSE frame' = fr /\ Goto(s, "M_edit_analyzing")

\* Lines 141-148 after an observation of the handle's state: wait and poll
\* again, raise on FAILED, or go on to the analysis.
AfterObservation(s, fr, state) ==
    IF KeepPolling(state)
    THEN frame' = fr /\ Goto(s, "M_sleep")
    ELSE IF ProcessingFailed(state)
    THEN /\ frame' = [fr EXCEPT ![s].e = PROCESSING_FAILED]
         /\ Goto(s, "M_error_edit")
    ELSE frame' = fr /\ Goto(s, "M_edit_analyzing")

\* Line 136: genai.upload_file(path=temp_path); the provider names the file
\* and reports its state.
HandleMediaUpload ==
    \E s \in Runnable :
        /\ pc[s] = "M_upload"
        /\ \/ /\ frame[s].temp_path \in fs
              /\ \E state \in FileStates :
                   /\ Call(s, "upload_file", <<frame[s].temp_path>>, uploads + 1, state, TRUE)
                   /\ uploads' = uploads + 1
                   /\ remote' = remote \cup {uploads + 1}
                   /\ frame' = [frame EXCEPT ![s].gemini_file =
                                    [name |-> uploads + 1, state |-> state]]
                   /\ Goto(s, IF IsVideo(frame[s].media_type)
                              THEN "M_edit_processing" ELSE "M_edit_analyzing")
           \/ /\ Call(s, "upload_file", <<frame[s].temp_path>>, 0, "", FALSE)
              /\ Caught(s, GENAI_ERROR, "M_error_edit")
              /\ UNCHANGED <<remote, uploads>>
        /\ UNCHANGED <<mediaFrame, status_msg, dispatched, chat, fs>>

\* Lines 140-146: the progress edit, then the first test of the state.
HandleMediaEditProcessing ==
    \E s \in Runnable :
        /\ pc[s] = "M_edit_processing"
        /\ \E ok \in BOOLEAN :
             /\ Call(s, "edit_text", PROCESSING_VIDEO, 0, "", ok)
             /\ IF ok
                THEN EditText(s, PROCESSING_VIDEO, "")
                     /\ AfterObservation(s, frame, frame[s].gemini_file.state)
                ELSE UNCHANGED chat /\ Caught(s, TG_ERROR, "M_error_edit")
        /\ UNCHANGED <<mediaFrame, status_msg, dispatched, fs, remote, uploads>>

\* Line 142: await asyncio.sleep(3).
HandleMediaSleep ==
    \E s \in Runnable :
        /\ pc[s] = "M_sleep"
        /\ frame[s].polls < MaxPolls
        /\ Call(s, "sleep", <<>>, POLL_SECONDS, "", TRUE)
        /\ Goto(s, "M_get_state")
        /\ UNCHANGED <<mediaFrame, status_msg, dispatched, frame, chat, fs, remote, uploads>>

\* Line 143: genai.get_file(gemini_file.name), then the tests of 141-146.
HandleMediaGetState ==
    \E s \in Runnable :
        /\ pc[s] = "M_get_state"
        /\ \/ \E state \in FileStates :
                /\ Call(s, "get_file_state", <<>>, frame[s].gemini_file.name, state, TRUE)
                /\ AfterObservation(s,
                      [frame EXCEPT ![s].gemini_file.state = state, ![s].polls = @ + 1],
                      state)
           \/ /\ Call(s, "get_file_state", <<>>, frame[s].gemini_file.name, "", FALSE)
              /\ Caught(s, GENAI_ERROR, "M_error_edit")
        /\ UNCHANGED <<mediaFrame, status_msg, dispatched, chat, fs, remote, uploads>>

\* Line 148: the progress edit before the analysis.
HandleMediaEditAnalyzing ==
    \E s \in Runnable :
        /\ pc[s] = "M_edit_analyzing"
        /\ \E ok \in BOOLEAN :
             /\ Call(s, "edit_text", ANALYZING_MEDIA, 0, "", ok)
             /\ IF ok
                THEN EditText(s, ANALYZING_MEDIA, "") /\ Goto(s, "M_generate")
                     /\ UNCHANGED frame
                ELSE UNCHANGED chat /\ Caught(s, TG_ERROR, "M_error_edit")
        /\ UNCHANGED <<mediaFrame, status_msg, dispatched, fs, remote, uploads>>

\* Lines 150-154: the prompt and model.generate_content([gemini_file, prompt]).
HandleMediaGenerate ==
    \E s \in Runnable :
        /\ pc[s] = "M_generate"
        /\ \E out \in GenerateOutcomes :
             /\ Call(s, "generate_content", <<>>, 0, "", ~out.raised)
             /\ dispatched' = [dispatched EXCEPT ![s] =
                    Append(@, MediaPrompt(frame[s].gemini_file, frame[s].media_type,
                                          update[s].caption))]
             /\ IF out.raised
                THEN Caught(s, GENAI_ERROR, "M_error_edit")
                ELSE /\ frame' = [frame EXCEPT ![s].response =
                                    [blocked |-> out.blocked, text |-> out.text]]
                     /\ Goto(s, "M_edit_markdown")
        /\ UNCHANGED <<mediaFrame, status_msg, chat, fs, remote, uploads>>

\* Lines 156-158: the Markdown edit; any exception goes to the bare except.
HandleMediaEditMarkdown ==
    \E s \in Runnable :
        /\ pc[s] = "M_edit_markdown"
        /\ IF frame[s].response.blocked
           THEN Goto(s, "M_edit_plain") /\ UNCHANGED <<calls, chat>>
           ELSE \E ok \in BOOLEAN :
                  /\ Call(s, "edit_text_markdown", <<frame[s].response.text>>, 0, "", ok)
                  /\ IF ok
                     THEN EditText(s, <<frame[s].response.text>>, "Markdown")
                          /\ Goto(s, "M_delete_remote")
                     ELSE UNCHANGED chat /\ Goto(s, "M_edit_plain")
        /\ UNCHANGED <<mediaFrame, status_msg, dispatched, frame, fs, remote, uploads>>

\* Line 159: the plain edit of the except branch.
HandleMediaEditPlain ==
    \E s \in Runnable :
        /\ pc[s] = "M_edit_plain"
        /\ IF frame[s].response.blocked
           THEN Caught(s, NO_TEXT_ERROR, "M_error_edit") /\ UNCHANGED <<calls, chat>>
           ELSE \E ok \in BOOLEAN :
                  /\ Call(s, "edit_text", <<PlainText(frame[s].response)>>, 0, "", ok)
                  /\ IF ok
                     THEN EditText(s, <<PlainText(frame[s].response)>>, "")
                          /\ Goto(s, "M_delete_remote") /\ UNCHANGED frame
                     ELSE UNCHANGED chat /\ Caught(s, TG_ERROR, "M_error_edit")
        /\ UNCHANGED <<mediaFrame, status_msg, dispatched, fs, remote, uploads>>

\* Line 162: genai.delete_file(gemini_file.name), the last statement of the try.
HandleMediaDeleteRemote ==
    \E s \in Runnable :
        /\ pc[s] = "M_delete_remote"
        /\ \E ok \in BOOLEAN :
             /\ Call(s, "delete_file", <<>>, frame[s].gemini_file.name, "", ok)
             /\ IF ok
                THEN /\ remote' = remote \ {frame[s].gemini_file.name}
                     /\ Goto(s, "M_finally") /\ UNCHANGED frame
                ELSE UNCHANGED remote /\ Caught(s, GENAI_ERROR, "M_error_edit")
        /\ UNCHANGED <<mediaFrame, status_msg, dispatched, chat, fs, uploads>>

\* Lines 164-165: the error report; its own failure passes through finally.
HandleMediaErrorEdit ==
    \E s \in Runnable :
        /\ pc[s] = "M_error_edit"
        /\ \E ok \in BOOLEAN :
             /\ Call(s, "edit_text", MediaError(frame[s].e), 0, "", ok)
             /\ IF ok
                THEN EditText(s, MediaError(frame[s].e), "") /\ UNCHANGED frame
                ELSE UNCHANGED chat /\ frame' = [frame EXCEPT ![s].exc = TG_ERROR]
             /\ Goto(s, "M_finally")
        /\ UNCHANGED <<mediaFrame, status_msg, dispatched, fs, remote, uploads>>

\* Lines 166-169: os.remove(temp_path) when os.path.exists(temp_path).
HandleMediaFinally ==
    \E s \in Runnable :
        /\ pc[s] = "M_finally"
        /\ LET exists == Entry("os.path.exists", <<frame[s].temp_path>>, 0,
                                IF frame[s].temp_path \in fs THEN "True" ELSE "False", TRUE)
               remove == Entry("os.remove", <<frame[s].temp_path>>, 0, "", TRUE)
           IN  IF frame[s].temp_path \in fs
               THEN /\ calls' = [calls EXCEPT ![s] = Append(Append(@, exists), remove)]
                    /\ fs' = fs \ {frame[s].temp_path}
               ELSE /\ calls' = [calls EXCEPT ![s] = Append(@, exists)]
                    /\ fs' = fs
        /\ Goto(s, IF frame[s].exc # "" THEN "raised"
                   ELSE IF frame[s].e # "" THEN "failed" ELSE "replied")
        /\ UNCHANGED <<mediaFrame, status_msg, dispatched, frame, chat, remote, uploads>>

\* Something outside the bot (a cleaner of the temporary directory) removes
\* a temporary file: the case os.path.exists (line 168) guards against.
TempFileVanishes ==
    \E path \in fs :
        /\ fs' = fs \ {path}
        /\ UNCHANGED <<mainVars, loopVars, slotVars, chat, remote, uploads, extractVars>>

Next ==
    \/ ImportModule
    \/ MainCheck
    \/ MainBuild
    \/ MainRegister
    \/ MainRun
    \/ Receive
    \/ StartCommandReply
    \/ HandleTextReply
    \/ HandleTextEditFound
    \/ HandleTextSubmitExtract
    \/ HandleTextExtracted
    \/ HandleTextEditChecking
    \/ HandleTextGenerate
    \/ HandleTextEditMarkdown
    \/ HandleTextEditPlain
    \/ HandleTextErrorEdit
    \/ HandleMediaReplyTooLarge
    \/ HandleMediaGetFile
    \/ HandleMediaReplyStatus
    \/ HandleMediaDownload
    \/ HandleMediaEditUploading
    \/ HandleMediaUpload
    \/ HandleMediaEditProcessing
    \/ HandleMediaSleep
    \/ HandleMediaGetState
    \/ HandleMediaEditAnalyzing
    \/ HandleMediaGenerate
    \/ HandleMediaEditMarkdown
    \/ HandleMediaEditPlain
    \/ HandleMediaDeleteRemote
    \/ HandleMediaErrorEdit
    \/ HandleMediaFinally
    \/ TempFileVanishes

Spec == Init /\ [][Next]_vars

----------------------------------------------------------------------------
(* The extractor on its own: one call on one fetch outcome. *)

InitExtract ==
    /\ environ = [TELEGRAM_TOKEN |-> Absent, GEMINI_API_KEY |-> Absent]
    /\ TELEGRAM_TOKEN = ""
    /\ GEMINI_API_KEY = ""
    /\ genai_key = ""
    /\ main_pc = "import"
    /\ stdout = <<>>
    /\ app_handlers = <<>>
    /\ capacity = 0
    /\ inbox = {}
    /\ InitSlots
    /\ x_fetch \in FetchOutcomes
    /\ x_pc = "call"
    /\ x_result = [propagated |-> FALSE, exc |-> NoException, value |-> <<>>]

\* extract_text_from_url(url) called once.
ExtractCall ==
    /\ x_pc = "call"
    /\ x_result' = extract_text_from_url(<<"http://", "a">>, x_fetch)
    /\ x_pc' = "returned"
    /\ UNCHANGED <<mainVars, loopVars, slotVars, worldVars, x_fetch>>

NextExtract == ExtractCall

SpecExtract == InitExtract /\ [][NextExtract]_vars


----------------------------------------------------------------------------
----------------------------------------------------------------------------
(* The polling loop followed without end: the rounds after the first       *)
(* MaxPolls are taken but no longer entered in the call record.            *)

\* Line 142 in a later round: await asyncio.sleep(3).
HandleMediaSleepOn ==
    \E s \in Runnable :
        /\ pc[s] = "M_sleep"
        /\ frame[s].polls >= MaxPolls
        /\ Goto(s, "M_get_state_on")
        /\ UNCHANGED <<mediaFrame, status_msg, calls, dispatched, frame, chat, fs,
                       remote, uploads>>

\* Line 143 in a later round: genai.get_file, then the tests of 141-146.
HandleMediaGetStateOn ==
    \E s \in Runnable :
        /\ pc[s] = "M_get_state_on"
        /\ \/ \E state \in FileStates :
                AfterObservation(s, [frame EXCEPT ![s].gemini_file.state = state], state)
           \/ Caught(s, GENAI_ERROR, "M_error_edit")
        /\ UNCHANGED <<mediaFrame, status_msg, calls, dispatched, chat, fs, remote, uploads>>

NextLive ==
    \/ Next
    \/ HandleMediaSleepOn
    \/ HandleMediaGetStateOn

\* The event loop resumes a coroutine that can go on; every step of a
\* coroutine moves its position.
SpecLive == Init /\ [][NextLive]_vars /\ WF_vars(NextLive /\ pc' # pc)

----------------------------------------------------------------------------
(* Two updates in flight: the dispatch loop starts a second callback while *)
(* the first is suspended.                                                 *)

\* The updates delivered in the runs with two handlers.
ConcUpdates ==
    { Upd("text", <<<<"https://", "a.example/x">>>>, 0, ""),
      Upd("photo", <<>>, 0, "") }

InitConc ==
    /\ environ = [TELEGRAM_TOKEN |-> "123456:token", GEMINI_API_KEY |-> "gemini-key"]
    /\ TELEGRAM_TOKEN = ""
    /\ GEMINI_API_KEY = ""
    /\ genai_key = ""
    /\ main_pc = "import"
    /\ stdout = <<>>
    /\ app_handlers = <<>>
    /\ capacity = 2
    /\ inbox = ConcUpdates
    /\ InitSlots
    /\ x_fetch = FetchOk(<<>>)
    /\ x_pc = "unused"
    /\ x_result = [propagated |-> FALSE, exc |-> NoException, value |-> <<>>]

\* The steps these updates lead to.
NextConc ==
    \/ ImportModule
    \/ MainCheck
    \/ MainBuild
    \/ MainRegister
    \/ MainRun
    \/ Receive
    \/ HandleTextReply
    \/ HandleTextEditFound
    \/ HandleTextSubmitExtract
    \/ HandleTextExtracted
    \/ HandleTextEditChecking
    \/ HandleTextGenerate
    \/ HandleTextEditMarkdown
    \/ HandleTextEditPlain
    \/ HandleTextErrorEdit
    \/ HandleMediaGetFile
    \/ HandleMediaReplyStatus
    \/ HandleMediaDownload
    \/ HandleMediaEditUploading
    \/ HandleMediaUpload
    \/ HandleMediaEditAnalyzing
    \/ HandleMediaGenerate
    \/ HandleMediaEditMarkdown
    \/ HandleMediaEditPlain
    \/ HandleMediaDeleteRemote
    \/ HandleMediaErrorEdit
    \/ HandleMediaFinally

SpecConc == InitConc /\ [][NextConc]_vars

(* Properties. *)

\* The handler has ended: by replying, by reporting an error, by the size
\* rejection, or by an exception leaving it.
Finished(s) == pc[s] \in {"replied", "failed", "rejected", "raised"}

Started(s) == pc[s] # "idle"

IsMedia(s) == update[s].kind \in {"photo", "video"}

CallIndexes(s, ops) == { k \in 1..Len(calls[s]) : calls[s][k].op \in ops }

ErrorPrefixes == {"An error occurred during analysis: ", "An error occurred: "}

\* The status message of s exists and shows an error description.
ShowsError(s) ==
    /\ status_msg[s] # 0
    /\ Len(chat[status_msg[s]].text) = 2
    /\ chat[status_msg[s]].text[1] \in ErrorPrefixes

(* C1: whenever handle_media has created a temporary file, that path no    *)
(* longer exists once the handler has finished, on every exit path.        *)
C1_TempFileGoneAtExit ==
    \A s \in Slots :
        (IsMedia(s) /\ Finished(s) /\ frame[s].temp_file # "")
            => frame[s].temp_file \notin fs

(* C2: whenever the upload succeeded, the remote handle is no longer held  *)
(* by the provider once handle_media has finished, whatever the outcome.   *)
C2_RemoteHandleDeletedAtExit ==
    \A s \in Slots :
        (IsMedia(s) /\ Finished(s) /\ frame[s].gemini_file.name # 0)
            => frame[s].gemini_file.name \notin remote

(* C3: a video of more than 20*1024*1024 bytes gets the size-limit reply   *)
(* and nothing else: no file lookup, download, upload, poll or dispatch,   *)
(* no temporary file, and the handler ends there; a video of at most that  *)
(* size is never given the size-limit reply.                               *)
C3_OversizeVideoRejected ==
    \A s \in Slots :
        (update[s].kind = "video" /\ Started(s)) =>
            IF update[s].file_size > 20 * 1024 * 1024
            THEN /\ pc[s] \in {"M_reply_too_large", "rejected", "raised"}
                 /\ (pc[s] = "M_reply_too_large") = (calls[s] = <<>>)
                 /\ Len(calls[s]) <= 1
                 /\ \A k \in 1..Len(calls[s]) :
                        calls[s][k].op = "reply_text" /\ calls[s][k].args = TOO_LARGE
                 /\ pc[s] = "rejected" =>
                        \E m \in 1..Len(chat) : chat[m].text = TOO_LARGE
                 /\ frame[s].temp_file = "" /\ dispatched[s] = <<>>
            ELSE /\ pc[s] \notin {"M_reply_too_large", "rejected"}
                 /\ \A k \in 1..Len(calls[s]) : calls[s][k].args # TOO_LARGE

\* A 25 MB video has been turned away with the size-limit reply.
C3_Witness ==
    \E s \in Slots :
        /\ update[s].kind = "video"
        /\ update[s].file_size = 25 * 1024 * 1024
        /\ pc[s] = "rejected"
        /\ Len(calls[s]) = 1
        /\ chat[Len(chat)].text = TOO_LARGE

\* No call that raised is made again by the same handler.
NoRetry(s) ==
    \A j, k \in 1..Len(calls[s]) :
        (j < k /\ ~calls[s][j].ok) =>
            ~( /\ calls[s][k].op = calls[s][j].op
               /\ calls[s][k].args = calls[s][j].args
               /\ calls[s][k].n = calls[s][j].n )

(* C4: in handle_text and handle_media, whenever a step has raised an      *)
(* exception, the finished handler has left its status message showing an  *)
(* error description and has re-attempted no step.  Stated for the         *)
(* exceptions raised once the status message exists, the rejection of the  *)
(* Markdown edit (which the plain edit answers) left aside.                *)
C4_ExceptionShownInStatus ==
    \A s \in Slots :
        ( /\ update[s].kind \in {"text", "photo", "video"}
          /\ Finished(s)
          /\ status_msg[s] # 0
          /\ \E k \in 1..Len(calls[s]) :
                ~calls[s][k].ok /\ calls[s][k].op # "edit_text_markdown" )
            => (ShowsError(s) /\ NoRetry(s))

\* The verdict text a handler holds in response.text.
Verdict(s) == <<frame[s].response.text>>

(* C5: in both handlers, a rejected Markdown edit of the verdict is        *)
(* followed by exactly one more edit attempt, in plain text and with the   *)
(* identical verdict text; right after that plain edit is accepted the     *)
(* status message holds the whole verdict text.                            *)
C5_PlainFallbackKeepsVerdict ==
    \A s \in Slots :
        \A k \in CallIndexes(s, {"edit_text_markdown"}) :
            ~calls[s][k].ok =>
                /\ calls[s][k].args = Verdict(s)
                /\ CallIndexes(s, {"edit_text_markdown"}) = {k}
                /\ (pc[s] \in {"T_edit_plain", "M_edit_plain"}) = (Len(calls[s]) = k)
                /\ Len(calls[s]) > k =>
                     /\ calls[s][k + 1].op = "edit_text"
                     /\ calls[s][k + 1].args = calls[s][k].args
                     /\ \A j \in (k + 2)..Len(calls[s]) :
                            calls[s][j].args # calls[s][k].args
                     /\ (calls[s][k + 1].ok /\ Len(calls[s]) = k + 1) =>
                            chat[status_msg[s]] = Msg(Verdict(s), "")

\* The Markdown edit was rejected and the plain edit delivered the verdict.
C5_Witness ==
    \E s \in Slots :
        /\ Len(calls[s]) >= 2
        /\ calls[s][Len(calls[s]) - 1].op = "edit_text_markdown"
        /\ ~calls[s][Len(calls[s]) - 1].ok
        /\ calls[s][Len(calls[s])].op = "edit_text"
        /\ calls[s][Len(calls[s])].ok
        /\ frame[s].response.text \in VerdictTexts
        /\ chat[status_msg[s]] = Msg(<<frame[s].response.text>>, "")

FAILED_WORD == <<"F", "a", "i", "l", "e", "d">>

(* C6: for a fetch that times out, errors or whose body does not parse,    *)
(* extract_text_from_url lets no exception out and returns a placeholder   *)
(* that contains the word "Failed" and the error's description.            *)
C6_ExtractNeverRaises ==
    (x_pc = "returned" /\ x_fetch.raises # "none") =>
        /\ ~x_result.propagated
        /\ Contains(x_result.value, FAILED_WORD)
        /\ Contains(x_result.value, x_fetch.exc.desc)

\* The body did not parse and the placeholder came back.
C6_Witness ==
    /\ x_pc = "returned"
    /\ x_fetch.raises = "parse"
    /\ ~x_result.propagated
    /\ Contains(x_result.value, BAD_MARKUP)

RECURSIVE SumLen(_)
SumLen(parts) == IF parts = <<>> THEN 0 ELSE Len(Head(parts)) + SumLen(Tail(parts))

\* Length of the paragraphs joined by single spaces.
JoinedLen(parts) == SumLen(parts) + (IF parts = <<>> THEN 0 ELSE Len(parts) - 1)

(* C7: for a fetched page, extract_text_from_url returns the first 15,000  *)
(* characters of the space-joined paragraph text: exactly 15,000           *)
(* characters when the joined text is longer, the whole joined text        *)
(* otherwise, never more than 15,000.                                      *)
C7_TruncatesTo15000 ==
    (x_pc = "returned" /\ x_fetch.raises = "none") =>
        LET joined == JoinSpace(x_fetch.paragraphs)
            n == JoinedLen(x_fetch.paragraphs)
        IN  /\ ~x_result.propagated
            /\ Len(joined) = n
            /\ Len(x_result.value) <= 15000
            /\ n > 15000 => Len(x_result.value) = 15000
            /\ n <= 15000 => x_result.value = joined
            /\ x_result.value = SubSeq(joined, 1, Len(x_result.value))

\* A page of more than 15,000 characters came back cut to 15,000.
C7_Witness ==
    /\ x_pc = "returned"
    /\ x_fetch.raises = "none"
    /\ JoinedLen(x_fetch.paragraphs) > 15000
    /\ Len(x_result.value) = 15000

ObservationOps == {"upload_file", "get_file_state"}

\* The states of the remote handle observed by s among its first k calls.
ObservedUpTo(s, k) ==
    LET obs == SelectSeq(SubSeq(calls[s], 1, k),
                         LAMBDA c : c.op \in ObservationOps /\ c.ok)
    IN  [j \in 1..Len(obs) |-> obs[j].result]

LastOf(seq) == seq[Len(seq)]

(* C8: for a video, generate_content is called only after an observation   *)
(* of the remote handle that reports neither PROCESSING nor FAILED; while   *)
(* PROCESSING is the last state observed the handler waits 3 seconds and    *)
(* reads the state again, each read coming right after one such wait.       *)
C8_NoDispatchWhileProcessing ==
    \A s \in Slots :
        update[s].kind = "video" =>
            /\ \A k \in CallIndexes(s, {"generate_content"}) :
                   /\ ObservedUpTo(s, k) # <<>>
                   /\ LastOf(ObservedUpTo(s, k)) \notin {"PROCESSING", "FAILED"}
            /\ \A k \in 1..Len(dispatched[s]) :
                   dispatched[s][k].file.state \notin {"PROCESSING", "FAILED"}
            /\ \A k \in CallIndexes(s, {"get_file_state"}) :
                   /\ k > 1
                   /\ calls[s][k - 1].op = "sleep"
                   /\ calls[s][k - 1].n = 3
            /\ \A k \in CallIndexes(s, {"sleep"}) :
                   LastOf(ObservedUpTo(s, k)) = "PROCESSING"
            /\ pc[s] \in {"M_edit_analyzing", "M_generate"} =>
                   LastOf(ObservedUpTo(s, Len(calls[s]))) \notin {"PROCESSING", "FAILED"}
            /\ pc[s] \in {"M_sleep", "M_get_state"} =>
                   LastOf(ObservedUpTo(s, Len(calls[s]))) = "PROCESSING"

\* processing, processing, ready: dispatched after the third observation.
C8_Witness ==
    \E s \in Slots :
        /\ update[s].kind = "video"
        /\ Len(dispatched[s]) = 1
        /\ ObservedUpTo(s, Len(calls[s])) = <<"PROCESSING", "PROCESSING", "ACTIVE">>

\* The URL the pattern finds in each word of the lexicon (<<>>: none).
ExpectedMatch(word) ==
    CASE word = <<"claim">> -> <<>>
      [] word = <<"https://", "a.example/x">> -> <<"https://", "a.example/x">>
      [] word = <<"see:", "http://", "b.example">> -> <<"http://", "b.example">>
      [] word = <<"http://">> -> <<>>

\* The URLs of the message of s, in the order they appear.
ExpectedUrls(s) ==
    LET t == update[s].text
        hits == SelectSeq([j \in 1..Len(t) |-> ExpectedMatch(t[j])], LAMBDA m : m # <<>>)
    IN  hits

\* The extractor calls of s among its first k calls, in order.
ExtractCalls(s, k) ==
    SelectSeq(SubSeq(calls[s], 1, k), LAMBDA c : c.op = "extract_text_from_url")

\* The URLs given to the extractor by s among its first k calls, in order.
ExtractedUpTo(s, k) ==
    [j \in 1..Len(ExtractCalls(s, k)) |-> ExtractCalls(s, k)[j].args]

\* What the extractor can return for a URL met in a message.
HandlerContents == { extract_text_from_url(<<>>, f).value : f \in HandlerFetches }

\* The prompt is the instruction, the literal text and one block per URL, in
\* order, each holding what the extractor returned for that URL.
PromptMatches(s, prompt) ==
    /\ prompt.instruction = "SYSTEM_INSTRUCTION"
    /\ prompt.user_text = update[s].text
    /\ Len(prompt.extracted_content) = Len(ExpectedUrls(s))
    /\ \A j \in 1..Len(ExpectedUrls(s)) :
           /\ prompt.extracted_content[j].url = ExpectedUrls(s)[j]
           /\ prompt.extracted_content[j].content \in HandlerContents
           /\ prompt.extracted_content[j].content = ExtractCalls(s, Len(calls[s]))[j].result

(* C9 as worded: once handle_text has finished, the extractor has been     *)
(* called once per URL of the message, in order, and the dispatcher once.  *)
C9_AlwaysExtractsAndDispatchesOnce ==
    \A s \in Slots :
        (update[s].kind = "text" /\ Finished(s)) =>
            /\ ExtractedUpTo(s, Len(calls[s])) = ExpectedUrls(s)
            /\ Len(dispatched[s]) = 1

(* C9 amended: handle_text gives the URLs of the message to the extractor  *)
(* one at a time and in order, each at most once; the dispatcher is called *)
(* at most once and only after every URL has been extracted, with a prompt *)
(* that holds the instruction, the literal text and one labeled block per  *)
(* URL in order; and a finished handler has dispatched exactly once unless *)
(* the sending or an edit of the status message before the dispatch raised.*)
C9_ExtractsInOrderThenDispatches ==
    \A s \in Slots :
        update[s].kind = "text" =>
            LET done == ExtractedUpTo(s, Len(calls[s]))
                urls == ExpectedUrls(s)
            IN  /\ status_msg[s] # 0 => frame[s].urls = urls
                /\ Len(done) <= Len(urls)
                /\ done = SubSeq(urls, 1, Len(done))
                /\ Cardinality(frame[s].in_flight) <= 1
                /\ frame[s].in_flight # {} => frame[s].in_flight = {Len(done) + 1}
                /\ Len(dispatched[s]) <= 1
                /\ Len(dispatched[s]) = Cardinality(CallIndexes(s, {"generate_content"}))
                /\ \A k \in CallIndexes(s, {"generate_content"}) :
                       /\ ExtractedUpTo(s, k) = urls
                       /\ frame[s].in_flight = {}
                       /\ PromptMatches(s, dispatched[s][1])
                /\ (Finished(s) /\ dispatched[s] = <<>>) =>
                       \E k \in CallIndexes(s, {"reply_text", "edit_text"}) : ~calls[s][k].ok

\* A message with two URLs: both extracted in order, then one dispatch.
C9_Witness ==
    \E s \in Slots :
        /\ update[s].kind = "text"
        /\ Len(ExpectedUrls(s)) = 2
        /\ ExpectedUrls(s)[1] # ExpectedUrls(s)[2]
        /\ pc[s] = "replied"
        /\ Len(dispatched[s]) = 1
        /\ ExtractedUpTo(s, Len(calls[s])) = ExpectedUrls(s)

(* C10: when TELEGRAM_TOKEN or GEMINI_API_KEY is absent from the           *)
(* environment, main reports the configuration error and returns: it never *)
(* builds the application, registers handlers or enters the polling loop.  *)
C10_MissingSecretStopsStartup ==
    (environ.TELEGRAM_TOKEN = Absent \/ environ.GEMINI_API_KEY = Absent) =>
        /\ main_pc \notin {"register", "run", "polling"}
        /\ app_handlers = <<>>
        /\ main_pc = "returned" => CONFIG_ERROR \in { stdout[k] : k \in 1..Len(stdout) }

----------------------------------------------------------------------------
\* The calls of s at which the provider reported the remote handle FAILED.
FailedObservations(s) ==
    { k \in CallIndexes(s, ObservationOps) :
        calls[s][k].ok /\ calls[s][k].result = "FAILED" }

\* The error reports of handle_media among the calls of s after call k.
MediaErrorEditsAfter(s, k) ==
    { j \in (k + 1)..Len(calls[s]) :
        /\ calls[s][j].op = "edit_text"
        /\ Len(calls[s][j].args) = 2
        /\ calls[s][j].args[1] = "An error occurred: " }

(* C13: once the remote handle of a video has been observed FAILED, by the  *)
(* upload or by a poll, handle_media neither waits nor polls again and      *)
(* never calls generate_content; apart from the progress edit that follows  *)
(* the upload, its only further calls are one edit of the status message to *)
(* an error description (the processing failure, when that progress edit    *)
(* did not itself raise) and the local cleanup; an accepted error edit is   *)
(* what the status message shows at the end, and the bot keeps polling for  *)
(* updates.                                                                 *)
C13_FailedVideoAborts ==
    \A s \in Slots :
        update[s].kind = "video" =>
            \A k \in FailedObservations(s) :
                LET errs == MediaErrorEditsAfter(s, k)
                    progress == { j \in (k + 1)..Len(calls[s]) :
                                    calls[s][j].args = PROCESSING_VIDEO }
                IN  /\ \A j \in (k + 1)..Len(calls[s]) :
                           /\ calls[s][j].op \in {"edit_text", "os.path.exists", "os.remove"}
                           /\ calls[s][j].op = "edit_text" => j \in errs \cup progress
                    /\ dispatched[s] = <<>>
                    /\ progress # {} => (progress = {k + 1} /\ calls[s][k].op = "upload_file")
                    /\ pc[s] \in {"M_edit_processing", "M_error_edit", "M_finally",
                                  "failed", "raised"}
                    /\ pc[s] = "M_edit_processing" => k = Len(calls[s])
                    /\ pc[s] = "M_error_edit" => errs = {}
                    /\ pc[s] \in {"M_finally", "failed", "raised"} =>
                           /\ Cardinality(errs) = 1
                           /\ \A j \in errs :
                                /\ calls[s][j].args =
                                     MediaError(IF \E p \in progress : ~calls[s][p].ok
                                                THEN TG_ERROR ELSE PROCESSING_FAILED)
                                /\ calls[s][j].ok =>
                                     chat[status_msg[s]].text = calls[s][j].args
                                /\ (pc[s] = "failed") => calls[s][j].ok
                                /\ (pc[s] = "raised") => ~calls[s][j].ok
                    /\ main_pc = "polling"

\* A video reported FAILED by its second poll has ended with the processing
\* failure in its status message.
C13_Witness ==
    \E s \in Slots :
        /\ update[s].kind = "video"
        /\ pc[s] = "failed"
        /\ \E k \in FailedObservations(s) :
             calls[s][k].op = "get_file_state" /\ frame[s].polls = 2
        /\ chat[status_msg[s]].text = MediaError(PROCESSING_FAILED)
        /\ fs = {}

----------------------------------------------------------------------------
\* The operations of the calls of s, in order.
Ops(s) == [k \in 1..Len(calls[s]) |-> calls[s][k].op]

\* n rounds of the polling loop.
PollRounds(n) == [k \in 1..(2 * n) |-> IF k % 2 = 1 THEN "sleep" ELSE "get_file_state"]

\* handle_media has replied, none of its calls raised and the temporary
\* file was still there for the finally block.
FailureFree(s) ==
    /\ IsMedia(s)
    /\ pc[s] = "replied"
    /\ \A k \in 1..Len(calls[s]) :
         /\ calls[s][k].ok
         /\ calls[s][k].op = "os.path.exists" => calls[s][k].result = "True"

(* C14: when handle_media ends with no call having raised, its calls are    *)
(* exactly: get_file, the status reply, the download, the upload (with its  *)
(* progress edit), for a video the processing edit and the rounds of sleep  *)
(* and get_file, then the analysis edit, generate_content, the edit that    *)
(* writes the verdict, delete_file and os.remove; each once, in this order. *)
(* A video on this path is within the size limit and its polls end with     *)
(* the first state other than PROCESSING; a photo makes no poll whatever    *)
(* state the upload reported.                                               *)
C14_FailureFreeOrder ==
    \A s \in Slots :
        FailureFree(s) =>
            LET video == update[s].kind = "video"
                n == frame[s].polls
                seen == ObservedUpTo(s, Len(calls[s]))
            IN  /\ Ops(s) =
                     <<"get_file", "reply_text", "download_to_drive", "edit_text", "upload_file">>
                     \o (IF video THEN <<"edit_text">> \o PollRounds(n) ELSE <<>>)
                     \o <<"edit_text", "generate_content", "edit_text_markdown",
                          "delete_file", "os.path.exists", "os.remove">>
                /\ video => /\ update[s].file_size <= MAX_VIDEO_BYTES
                            /\ Len(seen) = n + 1
                            /\ \A j \in 1..n : seen[j] = "PROCESSING"
                            /\ seen[n + 1] = "ACTIVE"
                /\ ~video => n = 0 /\ Len(seen) = 1
                /\ Len(dispatched[s]) = 1
                /\ chat[status_msg[s]].text = Verdict(s)
                /\ frame[s].gemini_file.name \notin remote
                /\ frame[s].temp_path \notin fs

\* A photo whose upload reported PROCESSING has been answered without a poll.
C14_Witness ==
    \E s \in Slots :
        /\ FailureFree(s)
        /\ update[s].kind = "photo"
        /\ ObservedUpTo(s, Len(calls[s])) = <<"PROCESSING">>
        /\ Len(calls[s]) = 11

----------------------------------------------------------------------------
\* The calls of s that write to the chat.
ChatOps == {"reply_text", "edit_text", "edit_text_markdown"}

\* The accepted calls of s that wrote to the chat.
Written(s) == { k \in CallIndexes(s, ChatOps) : calls[s][k].ok }

\* The greatest element of a non-empty set of numbers.
Greatest(S) == CHOOSE k \in S : \A j \in S : j <= k

(* C16: a handler calls reply_text at most once, before any of its edits;   *)
(* the outbound messages of the bot are exactly the accepted replies, one   *)
(* per handler at most; every edit is made on the handler's own status      *)
(* message, which therefore shows the text of the handler's latest          *)
(* accepted write.                                                          *)
C16_OneOutboundMessage ==
    /\ Len(chat) = Cardinality({ s \in Slots : \E k \in Written(s) :
                                                  calls[s][k].op = "reply_text" })
    /\ \A s \in Slots :
         LET replies == CallIndexes(s, {"reply_text"})
             edits == CallIndexes(s, {"edit_text", "edit_text_markdown"})
         IN  /\ Cardinality(replies) <= 1
             /\ edits # {} =>
                   /\ status_msg[s] \in 1..Len(chat)
                   /\ \E r \in replies : calls[s][r].ok /\ \A k \in edits : r < k
             /\ status_msg[s] # 0 =>
                   chat[status_msg[s]].text = calls[s][Greatest(Written(s))].args
             /\ \A t \in Slots \ {s} : status_msg[s] # 0 => status_msg[t] # status_msg[s]

\* A video handler has replied after four accepted edits of its one message.
C16_Witness ==
    \E s \in Slots :
        /\ update[s].kind = "video"
        /\ pc[s] = "replied"
        /\ Cardinality(Written(s)) = 5
        /\ Len(chat) = 1

----------------------------------------------------------------------------
\* The extractor calls of s that came back with the placeholder.
FailedExtractions(s) ==
    { k \in CallIndexes(s, {"extract_text_from_url"}) :
        Contains(calls[s][k].result, FAILED_WORD) }

\* Call k of s is the progress edit of line 96.
IsCheckingEdit(s, k) == calls[s][k].op = "edit_text" /\ calls[s][k].args = FACT_CHECKING

\* Every extractor call of s returned; what follows a call is the same
\* whether it returned a page or the placeholder: the next URL while one is
\* left, then the edit of line 96; and block j of the content built so far
\* is labeled with URL j and holds what the j-th call returned.
ExtractionGoesOn(s) ==
    LET urls == ExpectedUrls(s)
    IN  /\ frame[s].exc # "extractor"
        /\ \A k \in CallIndexes(s, {"extract_text_from_url"}) :
             LET j == Len(ExtractCalls(s, k))
             IN  /\ calls[s][k].ok
                 /\ calls[s][k].args = urls[j]
                 /\ frame[s].extracted_content[j] =
                        [url |-> urls[j], content |-> calls[s][k].result]
                 /\ IF k < Len(calls[s])
                    THEN IF j < Len(urls)
                         THEN /\ calls[s][k + 1].op = "extract_text_from_url"
                              /\ calls[s][k + 1].args = urls[j + 1]
                         ELSE IsCheckingEdit(s, k + 1)
                    ELSE pc[s] \in (IF j < Len(urls) THEN {"T_extract", "T_await_extract"}
                                    ELSE {"T_edit_checking"})

\* The one dispatch of s was given the prompt built from the extractions.
DispatchedOnceWithPrompt(s) ==
    /\ Len(dispatched[s]) = 1
    /\ PromptMatches(s, dispatched[s][1])
    /\ dispatched[s][1].extracted_content = frame[s].extracted_content

(* C17 as worded: when handle_text has finished and some extraction failed, *)
(* every URL of the message has been extracted, each block holds what its   *)
(* extraction returned, and the dispatcher has been invoked once with the   *)
(* resulting prompt.                                                        *)
C17_ExtractionFailureNeverAborts ==
    \A s \in Slots :
        (update[s].kind = "text" /\ Finished(s) /\ FailedExtractions(s) # {}) =>
            /\ ExtractionGoesOn(s)
            /\ ExtractedUpTo(s, Len(calls[s])) = ExpectedUrls(s)
            /\ DispatchedOnceWithPrompt(s)

(* C17 amended: a failed extraction never ends handle_text and changes      *)
(* nothing of what follows: the remaining URLs are extracted in order, the  *)
(* placeholder is the content of the failed URL's block, and the finished   *)
(* handler has dispatched once with that prompt unless the progress edit    *)
(* before the dispatch (line 96) raised, in which case it has not           *)
(* dispatched at all.                                                       *)
C17_ExtractionFailureGoesOn ==
    \A s \in Slots :
        update[s].kind = "text" =>
            /\ ExtractionGoesOn(s)
            /\ (Finished(s) /\ FailedExtractions(s) # {}) =>
                  /\ ExtractedUpTo(s, Len(calls[s])) = ExpectedUrls(s)
                  /\ \/ DispatchedOnceWithPrompt(s)
                     \/ /\ dispatched[s] = <<>>
                        /\ \E k \in 1..Len(calls[s]) : IsCheckingEdit(s, k) /\ ~calls[s][k].ok

\* Of two URLs the first failed to extract and the second did not; the one
\* dispatch got the placeholder in the first block and the page in the second.
C17_Witness ==
    \E s \in Slots :
        /\ update[s].kind = "text"
        /\ pc[s] = "replied"
        /\ Len(ExpectedUrls(s)) = 2
        /\ Cardinality(FailedExtractions(s)) = 1
        /\ Len(dispatched[s]) = 1
        /\ dispatched[s][1].extracted_content[1].content = FailedPlaceholder(TIMED_OUT)
        /\ dispatched[s][1].extracted_content[2].content = <<"a", "a", " ", "b">>

----------------------------------------------------------------------------
\* The accepted edits of s that wrote the verdict to its status message.
VerdictWrites(s) ==
    { k \in Written(s) :
        /\ calls[s][k].op \in {"edit_text", "edit_text_markdown"}
        /\ frame[s].response.text \in VerdictTexts
        /\ calls[s][k].args = Verdict(s) }

(* C18: in handle_media,              once the verdict has been written to the *)
(* status message, the status message shows the verdict from then on.       *)
C18_VerdictStays ==
    \A s \in Slots :
        (IsMedia(s) /\ VerdictWrites(s) # {}) =>
            chat[status_msg[s]].text = Verdict(s)

----------------------------------------------------------------------------
\* Positions at which a handler is waiting for an I/O operation to end:
\* a call of the chat platform, the URL fetch, the download, the upload,
\* the wait and the poll of the remote state, the inference, the deletion
\* of the remote file.
IOWaitPcs ==
    {"S_reply", "T_reply", "T_edit_found", "T_await_extract", "T_edit_checking",
     "T_generate", "T_edit_markdown", "T_edit_plain", "T_error_edit",
     "M_reply_too_large", "M_get_file", "M_reply_status", "M_download",
     "M_edit_uploading", "M_upload", "M_edit_processing", "M_sleep", "M_get_state",
     "M_get_state_on", "M_edit_analyzing", "M_generate", "M_edit_markdown", "M_edit_plain",
     "M_delete_remote", "M_error_edit"}

(* C11: with two handlers in flight, whenever one of them is waiting for an *)
(* I/O operation the event loop can resume the other.                       *)
C11_WaitingYieldsControl ==
    \A s, t \in Slots :
        (s # t /\ pc[s] \in IOWaitPcs /\ Started(t) /\ ~Finished(t)) =>
            t \in Runnable

----------------------------------------------------------------------------
\* The calls handle_text makes for a message with one URL when none raises.
TextCallsOneUrl ==
    <<"reply_text", "edit_text", "extract_text_from_url", "edit_text",
      "generate_content", "edit_text_markdown">>

\* The calls handle_media makes for a photo when none raises.
PhotoCalls ==
    <<"get_file", "reply_text", "download_to_drive", "edit_text", "upload_file",
      "edit_text", "generate_content", "edit_text_markdown", "delete_file",
      "os.path.exists", "os.remove">>

\* Some call of s raised.
HasFailure(s) == \E k \in 1..Len(calls[s]) : ~calls[s][k].ok

\* s has created its temporary file and has not removed it.
HoldsTempFile(s) == frame[s].temp_file # "" /\ CallIndexes(s, {"os.remove"}) = {}

\* Each handler has a status message, a temporary file and a remote file of
\* its own; a handler's temporary file exists for as long as it holds it.
OwnResources ==
    \A s, t \in Slots :
        s # t =>
            /\ status_msg[s] # 0 => status_msg[s] # status_msg[t]
            /\ HoldsTempFile(s) => frame[s].temp_file \in fs
            /\ (HoldsTempFile(s) /\ HoldsTempFile(t)) =>
                  frame[s].temp_file # frame[t].temp_file
            /\ frame[s].gemini_file.name # 0 =>
                  frame[s].gemini_file.name # frame[t].gemini_file.name

\* Whatever became of the other handler, a handler none of whose calls
\* raised (and whose response had text) has made the calls of the
\* failure-free run, shows its own verdict and has removed its own file.
UndisturbedByOther ==
    \A s \in Slots :
        (Finished(s) /\ ~HasFailure(s) /\ ~frame[s].response.blocked) =>
            /\ pc[s] = "replied"
            /\ Ops(s) = (IF update[s].kind = "text" THEN TextCallsOneUrl ELSE PhotoCalls)
            /\ chat[status_msg[s]].text = Verdict(s)
            /\ ~HoldsTempFile(s)

\* A step leaves alone every handler that does not take it: its position,
\* locals, call log and prompts, the content of its status message and its
\* temporary file.
StepIsLocal ==
    \A s \in Slots :
        (pc'[s] = pc[s] /\ calls'[s] = calls[s]) =>
            /\ frame'[s] = frame[s]
            /\ status_msg'[s] = status_msg[s]
            /\ dispatched'[s] = dispatched[s]
            /\ status_msg[s] # 0 => chat'[status_msg[s]] = chat[status_msg[s]]
            /\ HoldsTempFile(s) => frame[s].temp_file \in fs'

(* C12: in every interleaving of two handlers each has its own status      *)
(* message and its own temporary file; a step of one handler, failing or   *)
(* not, changes nothing of the other handler: not its call log, not the    *)
(* content of its status message, not its temporary file; and a handler    *)
(* whose own calls all succeed makes the calls of the failure-free run and *)
(* ends showing its own verdict whatever happened to the other.            *)
C12_HandlersIsolated ==
    /\ [](OwnResources /\ UndisturbedByOther)
    /\ [][StepIsLocal]_vars

\* The first handler's upload has raised and it waits to report the error,
\* its file still on disk; meanwhile the second handler has delivered its
\* verdict and holds a file of its own.
C12_Witness ==
    /\ pc[1] = "M_error_edit"
    /\ HasFailure(1)
    /\ frame[1].temp_file \in fs
    /\ pc[2] = "M_delete_remote"
    /\ ~HasFailure(2)
    /\ chat[status_msg[2]].text = Verdict(2)
    /\ frame[2].temp_file \in fs
    /\ frame[2].temp_file # frame[1].temp_file

----------------------------------------------------------------------------
\* Positions inside the polling loop of lines 141-143.
PollingPcs == {"M_sleep", "M_get_state", "M_get_state_on"}

\* Positions a video handler can be at with PROCESSING as the last state
\* seen and the loop left: before the loop, or on the way out by an error.
AroundLoopPcs == {"M_edit_processing", "M_error_edit", "M_finally", "failed", "raised"}

\* While the last state seen is PROCESSING a video handler is in the loop
\* (or has left by an exception); in the loop, whatever the number of rounds
\* made, it has dispatched nothing and cleaned up nothing: no
\* generate_content, no delete_file, no os.remove, the remote file is still
\* held by the provider.
PollsWhileProcessing ==
    \A s \in Slots :
        update[s].kind = "video" =>
            /\ frame[s].gemini_file.state = "PROCESSING" =>
                  pc[s] \in PollingPcs \cup AroundLoopPcs
            /\ pc[s] \in PollingPcs =>
                  /\ frame[s].gemini_file.state = "PROCESSING"
                  /\ dispatched[s] = <<>>
                  /\ CallIndexes(s, {"generate_content", "delete_file",
                                     "os.path.exists", "os.remove"}) = {}
                  /\ frame[s].gemini_file.name \in remote

(* C15: the polling loop of a video has no ceiling.  Under fair scheduling  *)
(* a started video handler either ends (which happens as soon as an         *)
(* observation is not PROCESSING or a poll raises) or stays in the loop     *)
(* forever; and as long as it is in the loop, after any number of rounds,   *)
(* it has neither dispatched nor cleaned up.                                *)
C15_PollsUntilStateChanges ==
    /\ []PollsWhileProcessing
    /\ \A s \in Slots :
         (update[s].kind = "video" /\ Started(s))
             ~> (Finished(s) \/ [](pc[s] \in PollingPcs))

\* A video handler is polling in a round past the recorded ones, with
\* nothing dispatched and its temporary and remote files still there.
C15_Witness ==
    \E s \in Slots :
        /\ update[s].kind = "video"
        /\ pc[s] = "M_get_state_on"
        /\ frame[s].polls = MaxPolls
        /\ dispatched[s] = <<>>
        /\ frame[s].temp_path \in fs
        /\ frame[s].gemini_file.name \in remote

====
